---- MODULE Spec2Model ----
(***************************************************************************)
(* A model of outpath.py, the GRRM log to XYZ trajectory converter.        *)
(*                                                                         *)
(* A log is a sequence of lines, each line a string, as                    *)
(* f.read().splitlines() yields them.  The string operations of the code   *)
(* (str.split, str.strip, startswith, the substring test `in`, re.match    *)
(* and float) are computed character by character.  A float is kept as a   *)
(* sign and a magnitude in units of 10^-6, which is what the writer's      *)
(* "%.6f" formatting prints.  Line cursors are 0-based as in the source:   *)
(* lines[j] of the code is lines[j + 1] here.                              *)
(***************************************************************************)
EXTENDS Integers, Sequences, FiniteSets, TLC

VARIABLES
    lines,            \* the log: f.read().splitlines()
    pc,               \* the position of main / parse_grrm
    ts_atoms,         \* parse_grrm: TS geometry
    ts_energy,        \* parse_grrm: TS energy, None until parsed
    start_marker,     \* collect: the start sentinel of the running scan
    end_marker,       \* collect: the end sentinel of the running scan
    j,                \* collect: the line cursor
    steps,            \* collect: the Steps recorded so far
    atoms,            \* collect: the atoms of the "# STEP" being read
    fwd,              \* parse_grrm: collect's result for the forward block
    bwd,              \* parse_grrm: collect's result for the backward block
    forward_frames,   \* main: frames of the forward trajectory
    backward_frames,  \* main: frames of the backward trajectory
    fwd_out,          \* the lines of the forward output file
    bwd_out,          \* the lines of the backward output file
    err               \* the exception that ended the run, "" when none

vars == <<lines, pc, ts_atoms, ts_energy, start_marker, end_marker, j, steps,
          atoms, fwd, bwd, forward_frames, backward_frames, fwd_out, bwd_out,
          err>>

----------------------------------------------------------------------------
(* Characters and strings                                                  *)

Char(s, i) == SubSeq(s, i, i)

\* str.isspace() within Latin-1: tab, line feed, vertical tab, form feed,
\* carriage return, the four separators 1C-1F, space, next line and
\* no-break space
Whitespace ==
    {"\t", "\n", "", "\f", "\r", "", "", "", "", " ",
     "", " "}

UpperCase == {"A", "B", "C", "D", "E", "F", "G", "H", "I", "J", "K", "L", "M",
              "N", "O", "P", "Q", "R", "S", "T", "U", "V", "W", "X", "Y", "Z"}

LowerCase == {"a", "b", "c", "d", "e", "f", "g", "h", "i", "j", "k", "l", "m",
              "n", "o", "p", "q", "r", "s", "t", "u", "v", "w", "x", "y", "z"}

DigitChars == "0123456789"

IsDigit(c) == \E d \in 1..10 : Char(DigitChars, d) = c

DigitValue(c) == (CHOOSE d \in 1..10 : Char(DigitChars, d) = c) - 1

\* needle in s
Contains(s, needle) ==
    \E i \in 1..(Len(s) - Len(needle) + 1) :
        SubSeq(s, i, i + Len(needle) - 1) = needle

\* s.startswith(prefix)
StartsWith(s, prefix) ==
    /\ Len(s) >= Len(prefix)
    /\ SubSeq(s, 1, Len(prefix)) = prefix

\* the end of the run of non-whitespace characters of s that starts at i
TokenEnd(s, i) ==
    CHOOSE e \in i..Len(s) :
        /\ \A k \in i..e : Char(s, k) \notin Whitespace
        /\ e < Len(s) => Char(s, e + 1) \in Whitespace

\* the first position of s from i on that holds no whitespace, Len(s) + 1
\* when there is none
TokenStart(s, i) ==
    CHOOSE b \in i..(Len(s) + 1) :
        /\ \A k \in i..(b - 1) : Char(s, k) \in Whitespace
        /\ b <= Len(s) => Char(s, b) \notin Whitespace

\* s.split(): the maximal runs of non-whitespace characters of s from i on
RECURSIVE SplitFrom(_, _)
SplitFrom(s, i) ==
    IF TokenStart(s, i) > Len(s) THEN << >>
    ELSE LET b == TokenStart(s, i)
             e == TokenEnd(s, b)
         IN  <<SubSeq(s, b, e)>> \o SplitFrom(s, e + 1)

Split(s) == SplitFrom(s, 1)

\* s.strip().startswith(prefix): leading whitespace is dropped; trailing
\* whitespace cannot change a prefix that has none at its end
LStrip(s) == SubSeq(s, TokenStart(s, 1), Len(s))

\* s.strip()
Strip(s) ==
    IF TokenStart(s, 1) > Len(s) THEN ""
    ELSE SubSeq(s, TokenStart(s, 1),
                CHOOSE e \in 1..Len(s) :
                    /\ Char(s, e) \notin Whitespace
                    /\ \A k \in (e + 1)..Len(s) : Char(s, k) \in Whitespace)

\* re.match(r'^[A-Z][a-z]?$', tok)
IsElement(tok) ==
    \/ Len(tok) = 1 /\ Char(tok, 1) \in UpperCase
    \/ Len(tok) = 2 /\ Char(tok, 1) \in UpperCase /\ Char(tok, 2) \in LowerCase

----------------------------------------------------------------------------
(* Natural numbers of any size: the sequence of their digits in base 10^4, *)
(* the least significant first, without zeros at the end                   *)

LimbDigits == 4

Base == 10000

\* Base * 2^ChunkBits is below 2^31
ChunkBits == 13

\* division finds the quotient DigitBits bits at a time
DigitBits == 6

\* the first step of the search for a binary exponent
MaxStep == 512

RECURSIVE Zeros(_)
Zeros(n) == IF n <= 0 THEN "" ELSE "0" \o Zeros(n - 1)

\* the value of a short string of digits
RECURSIVE DigitsValue(_)
DigitsValue(s) ==
    IF Len(s) = 0 THEN 0
    ELSE 10 * DigitsValue(SubSeq(s, 1, Len(s) - 1)) + DigitValue(Char(s, Len(s)))

RECURSIVE NatStr(_)
NatStr(n) ==
    IF n < 10 THEN Char(DigitChars, n + 1)
    ELSE NatStr(n \div 10) \o Char(DigitChars, (n % 10) + 1)

Limb(a, i) == IF i <= Len(a) THEN a[i] ELSE 0

Trim(a) ==
    SubSeq(a, 1, IF \E i \in 1..Len(a) : a[i] # 0
                 THEN CHOOSE i \in 1..Len(a) :
                        a[i] # 0 /\ \A k \in (i + 1)..Len(a) : a[k] = 0
                 ELSE 0)

\* the number written by the digits s
FromDigits(s) ==
    Trim([i \in 1..((Len(s) + LimbDigits - 1) \div LimbDigits) |->
            DigitsValue(SubSeq(s, IF Len(s) - LimbDigits * i + 1 < 1 THEN 1
                                  ELSE Len(s) - LimbDigits * i + 1,
                               Len(s) - LimbDigits * (i - 1)))])

\* the digits of limbs lo..hi of a, the most significant first
RECURSIVE Join(_, _, _)
Join(a, lo, hi) ==
    IF lo = hi
    THEN (IF lo < Len(a) THEN Zeros(LimbDigits - Len(NatStr(a[lo]))) ELSE "")
            \o NatStr(a[lo])
    ELSE Join(a, (lo + hi) \div 2 + 1, hi) \o Join(a, lo, (lo + hi) \div 2)

\* the digits of a
ToDigits(a) == IF Len(a) = 0 THEN "0" ELSE Join(a, 1, Len(a))

\* -1, 0, 1 as a < b, a = b, a > b
Cmp(a, b) ==
    IF Len(a) < Len(b) THEN -1
    ELSE IF Len(a) > Len(b) THEN 1
    ELSE IF a = b THEN 0
    ELSE LET i == CHOOSE i \in 1..Len(a) :
                    a[i] # b[i] /\ \A k \in (i + 1)..Len(a) : a[k] = b[k]
         IN  IF a[i] < b[i] THEN -1 ELSE 1

\* the limbs r.d with the carry r.c, if any, on top
WithCarry(r) == IF r.c = 0 THEN r.d ELSE r.d \o <<r.c>>

\* limbs lo..hi of a + b, c the carry into limb lo: the limbs and the
\* carry out
RECURSIVE AddRange(_, _, _, _, _)
AddRange(a, b, lo, hi, c) ==
    IF lo = hi
    THEN [d |-> <<(Limb(a, lo) + Limb(b, lo) + c) % Base>>,
          c |-> (Limb(a, lo) + Limb(b, lo) + c) \div Base]
    ELSE LET low == AddRange(a, b, lo, (lo + hi) \div 2, c)
         IN  LET high == AddRange(a, b, (lo + hi) \div 2 + 1, hi, low.c)
             IN  [d |-> low.d \o high.d, c |-> high.c]

Add(a, b) ==
    IF Len(a) = 0 THEN b
    ELSE IF Len(b) = 0 THEN a
    ELSE WithCarry(AddRange(a, b, 1, IF Len(a) > Len(b) THEN Len(a) ELSE Len(b), 0))

\* limbs lo..hi of a - b, c the borrow from limb lo: the limbs and the
\* borrow out
RECURSIVE SubRange(_, _, _, _, _)
SubRange(a, b, lo, hi, c) ==
    IF lo = hi
    THEN [d |-> <<(a[lo] - Limb(b, lo) - c + Base) % Base>>,
          c |-> IF a[lo] - Limb(b, lo) - c < 0 THEN 1 ELSE 0]
    ELSE LET low == SubRange(a, b, lo, (lo + hi) \div 2, c)
         IN  LET high == SubRange(a, b, (lo + hi) \div 2 + 1, hi, low.c)
             IN  [d |-> low.d \o high.d, c |-> high.c]

\* a - b, for a >= b
Sub(a, b) == IF Len(a) = 0 THEN << >> ELSE Trim(SubRange(a, b, 1, Len(a), 0).d)

\* limbs lo..hi of a * k, c the carry into limb lo: the limbs and the
\* carry out
RECURSIVE MulRange(_, _, _, _, _)
MulRange(a, k, lo, hi, c) ==
    IF lo = hi
    THEN [d |-> <<(a[lo] * k + c) % Base>>, c |-> (a[lo] * k + c) \div Base]
    ELSE LET low == MulRange(a, k, lo, (lo + hi) \div 2, c)
         IN  LET high == MulRange(a, k, (lo + hi) \div 2 + 1, hi, low.c)
             IN  [d |-> low.d \o high.d, c |-> high.c]

\* a * k, for 0 <= k <= 2^ChunkBits
Mul(a, k) ==
    IF k = 0 \/ Len(a) = 0 THEN << >>
    ELSE WithCarry(MulRange(a, k, 1, Len(a), 0))

\* a * 2^n
RECURSIVE MulPow2(_, _)
MulPow2(a, n) ==
    IF Len(a) = 0 \/ n <= ChunkBits THEN Mul(a, 2^n)
    ELSE MulPow2(MulPow2(a, n \div 2), n - n \div 2)

\* a * 10^n
MulPow10(a, n) ==
    Mul([i \in 1..(Len(a) + n \div LimbDigits) |->
            IF i <= n \div LimbDigits THEN 0 ELSE a[i - n \div LimbDigits]],
        10^(n % LimbDigits))

One == <<1>>

IsOdd(a) == Limb(a, 1) % 2 = 1

\* n plus the least m with a * 2^m >= b, for a > 0, looked for in steps of
\* s, s / 2, ..., 1; as is a * 2^s
RECURSIVE DoublingsFrom(_, _, _, _)
RECURSIVE DoublingsStep(_, _, _, _, _)
DoublingsStep(a, as, b, n, s) ==
    IF Cmp(as, b) < 0 THEN DoublingsFrom(as, b, n + s, s)
    ELSE IF s = 1 THEN n + 1
    ELSE DoublingsFrom(a, b, n, s \div 2)

DoublingsFrom(a, b, n, s) ==
    IF Cmp(a, b) >= 0 THEN n ELSE DoublingsStep(a, MulPow2(a, s), b, n, s)

\* the least n with a * 2^n >= b, for a > 0
Doublings(a, b) == DoublingsFrom(a, b, 0, MaxStep)

\* the digit of r / d in base 2^DigitBits, for r < d * 2^DigitBits
DivDigit(r, d) ==
    CHOOSE c \in 0..(2^DigitBits - 1) :
        Cmp(Mul(d, c + 1), r) > 0 /\ Cmp(Mul(d, c), r) <= 0

\* r divided by b, the digits of the quotient in base 2^DigitBits from the
\* i-th on, q the digits before: quotient and remainder; d is
\* b * 2^(DigitBits * i) and c the i-th digit
RECURSIVE DivFrom(_, _, _, _)
RECURSIVE DivStep(_, _, _, _, _, _)
DivStep(r, b, i, q, d, c) ==
    DivFrom(Sub(r, Mul(d, c)), b, i - 1, Add(Mul(q, 2^DigitBits), Mul(One, c)))

DivAt(r, b, i, q, d) == DivStep(r, b, i, q, d, DivDigit(r, d))

DivFrom(r, b, i, q) ==
    IF i < 0 THEN [q |-> q, r |-> r]
    ELSE DivAt(r, b, i, q, MulPow2(b, DigitBits * i))

DivMod(a, b) == DivFrom(a, b, Doublings(b, a) \div DigitBits, << >>)

\* the quotient d.q of a division by b, rounded to the nearest integer,
\* ties to even
Rounded(d, b) ==
    IF \/ Cmp(Mul(d.r, 2), b) > 0
       \/ Cmp(Mul(d.r, 2), b) = 0 /\ IsOdd(d.q)
    THEN Add(d.q, One) ELSE d.q

\* a / b rounded to the nearest integer, ties to even
RoundDiv(a, b) == Rounded(DivMod(a, b), b)

----------------------------------------------------------------------------
(* float(tok) and the "%.6f" format.  float(tok) is the binary64 number    *)
(* nearest to the literal (ties to even), "%.6f" prints the multiple of    *)
(* 10^-6 nearest to that number (ties to even); the only use the program   *)
(* makes of a float is to print it so, and a float is kept here as its     *)
(* sign and the digits of that multiple.  Characters beyond Latin-1 (the   *)
(* other Unicode spaces and decimal digits, which split and float also     *)
(* accept) cannot occur in a string of the model.                          *)

FracDigits == 6

MantissaBits == 53

\* the largest binary64 number is (2^53 - 1) * 2^971, of 309 digits
MaxBinaryExp == 971

MaxDecimalDigits == 309

\* every number of at most 9 digits is below 2^33
ExactDigits == 9

\* the longest of inf, infinity and nan
MaxWord == 8

UpperChars == "ABCDEFGHIJKLMNOPQRSTUVWXYZ"

LowerChars == "abcdefghijklmnopqrstuvwxyz"

ToLower(c) ==
    IF c \in UpperCase
    THEN Char(LowerChars, CHOOSE i \in 1..Len(UpperChars) : Char(UpperChars, i) = c)
    ELSE c

RECURSIVE Lower(_)
Lower(s) ==
    IF Len(s) = 0 THEN "" ELSE ToLower(Char(s, 1)) \o Lower(SubSeq(s, 2, Len(s)))

AllDigits(s) == \A i \in 1..Len(s) : IsDigit(Char(s, i))

\* the position of the first character of s in cs, 0 when there is none
FirstAt(s, cs) ==
    IF \E i \in 1..Len(s) : Char(s, i) \in cs
    THEN CHOOSE i \in 1..Len(s) :
            Char(s, i) \in cs /\ \A k \in 1..(i - 1) : Char(s, k) \notin cs
    ELSE 0

\* the digits a without the zeros in front, "0" for zero
Norm(a) ==
    IF \E i \in 1..Len(a) : Char(a, i) # "0"
    THEN SubSeq(a, CHOOSE i \in 1..Len(a) :
                      Char(a, i) # "0" /\ \A k \in 1..(i - 1) : Char(a, k) = "0",
                Len(a))
    ELSE "0"

Unsigned(tok) ==
    IF Len(tok) > 0 /\ Char(tok, 1) \in {"-", "+"}
    THEN SubSeq(tok, 2, Len(tok))
    ELSE tok

\* an underscore is accepted between two digits only
UnderscoresOk(s) ==
    \A i \in 1..Len(s) :
        Char(s, i) = "_" =>
            /\ 1 < i /\ i < Len(s)
            /\ IsDigit(Char(s, i - 1))
            /\ IsDigit(Char(s, i + 1))

\* characters lo..hi of s without the underscores
RECURSIVE NoUnderscores(_, _, _)
NoUnderscores(s, lo, hi) ==
    IF lo > hi THEN ""
    ELSE IF lo = hi THEN (IF Char(s, lo) = "_" THEN "" ELSE Char(s, lo))
    ELSE NoUnderscores(s, lo, (lo + hi) \div 2)
            \o NoUnderscores(s, (lo + hi) \div 2 + 1, hi)

\* the literal without the whitespace around it, sign and underscores
Body(tok) == NoUnderscores(Unsigned(Strip(tok)), 1, Len(Unsigned(Strip(tok))))

IsInf(u) == Len(u) <= MaxWord /\ Lower(u) \in {"inf", "infinity"}

IsNan(u) == Len(u) <= MaxWord /\ Lower(u) = "nan"

ExpAt(u) == FirstAt(u, {"e", "E"})

Mantissa(u) == IF ExpAt(u) = 0 THEN u ELSE SubSeq(u, 1, ExpAt(u) - 1)

ExpPart(u) == IF ExpAt(u) = 0 THEN "" ELSE SubSeq(u, ExpAt(u) + 1, Len(u))

IntPart(m) ==
    IF FirstAt(m, {"."}) = 0 THEN m ELSE SubSeq(m, 1, FirstAt(m, {"."}) - 1)

FracPart(m) ==
    IF FirstAt(m, {"."}) = 0 THEN "" ELSE SubSeq(m, FirstAt(m, {"."}) + 1, Len(m))

\* float(tok) succeeds: [sign] inf | infinity | nan in any case, or
\* [sign] digits [. [digits]] [exponent] or [sign] . digits [exponent], the
\* exponent e or E, [sign], digits
IsFloat(tok) ==
    /\ UnderscoresOk(Strip(tok))
    /\ LET u == Body(tok)
           m == Mantissa(u)
       IN  \/ IsInf(u)
           \/ IsNan(u)
           \/ /\ AllDigits(IntPart(m))
              /\ AllDigits(FracPart(m))
              /\ Len(IntPart(m)) + Len(FracPart(m)) > 0
              /\ ExpAt(u) > 0 =>
                    /\ Len(Unsigned(ExpPart(u))) > 0
                    /\ AllDigits(Unsigned(ExpPart(u)))

\* the exponent of the literal is negative
ExpNeg(u) == Len(ExpPart(u)) > 0 /\ Char(ExpPart(u), 1) = "-"

\* the size of the exponent of the literal, as written
ExpSize(u) == FromDigits(Norm(Unsigned(ExpPart(u))))

\* the number n
FromNat(n) == FromDigits(NatStr(n))

\* the value of a short number
NatValue(a) == DigitsValue(ToDigits(a))

Positive(n) == IF n > 0 THEN n ELSE 0

\* the e with 2^52 <= p / (q * 2^e) < 2^53, for lo = q * 2^52
BinaryExpFrom(p, lo) ==
    IF Cmp(p, lo) < 0 THEN -Doublings(p, lo)
    ELSE Doublings(Mul(lo, 2), Add(p, One))

BinaryExp(p, q) == BinaryExpFrom(p, MulPow2(q, MantissaBits - 1))

\* p / (q * 2^e) rounded to the nearest integer, ties to even, and e
Scaled(p, q, e) ==
    [m |-> RoundDiv(MulPow2(p, Positive(-e)), MulPow2(q, Positive(e))), e |-> e]

\* the binary64 number nearest to p / q, ties to even, as m * 2^e with
\* 2^52 <= m <= 2^53
NearestDouble(p, q) == Scaled(p, q, BinaryExp(p, q))

Finite(neg, micro) == [kind |-> "finite", neg |-> neg, micro |-> micro]

Infinite(neg) == [kind |-> "inf", neg |-> neg, micro |-> "0"]

\* the float x.m * 2^x.e: beyond the largest binary64 number it is
\* infinite, else kept as the nearest multiple of 10^-6, ties to even
FromDouble(neg, x) ==
    IF \/ x.e > MaxBinaryExp
       \/ x.e = MaxBinaryExp /\ Cmp(x.m, MulPow2(One, MantissaBits)) >= 0
    THEN Infinite(neg)
    ELSE IF x.e >= 0
    THEN Finite(neg, ToDigits(MulPow10(MulPow2(x.m, x.e), FracDigits)))
    ELSE Finite(neg, ToDigits(RoundDiv(MulPow10(x.m, FracDigits), MulPow2(One, -x.e))))

\* the float of the magnitude d * 10^k, d without leading zeros, for
\* 10^-7 <= d * 10^k < 10^309
Magnitude(neg, d, k) ==
    IF k >= -FracDigits /\ Len(d) + k <= ExactDigits
    THEN \* a multiple of 10^-6 below 2^33: the nearest binary64 number is
         \* less than 2^-21 away and prints as the literal itself
         Finite(neg, Norm(d \o Zeros(k + FracDigits)))
    ELSE FromDouble(neg, NearestDouble(MulPow10(FromDigits(d), Positive(k)),
                                       MulPow10(One, Positive(-k))))

\* the float of the magnitude 0.d * 10^(a - b), d without leading zeros
Placed(neg, d, a, b) ==
    IF d = "0" \/ Cmp(Add(a, FromNat(FracDigits)), b) < 0
    THEN \* zero, or below 10^-7, which prints as zero
         Finite(neg, "0")
    ELSE IF Cmp(a, Add(b, FromNat(MaxDecimalDigits))) > 0 THEN Infinite(neg)
    ELSE Magnitude(neg, d, (IF Cmp(a, b) >= 0 THEN NatValue(Sub(a, b))
                            ELSE -NatValue(Sub(b, a))) - Len(d))

\* the float of the digits d with f of them after the point and the
\* exponent e, negative if eneg
Decimal(neg, d, f, eneg, e) ==
    Placed(neg, d, Add(FromNat(Len(d)), IF eneg THEN << >> ELSE e),
                   Add(FromNat(f), IF eneg THEN e ELSE << >>))

\* float(tok), for a tok with IsFloat(tok)
Float(tok) ==
    LET neg == StartsWith(Strip(tok), "-")
        u   == Body(tok)
        m   == Mantissa(u)
    IN  IF IsInf(u) THEN Infinite(neg)
        ELSE IF IsNan(u) THEN [kind |-> "nan", neg |-> FALSE, micro |-> "0"]
        ELSE Decimal(neg, Norm(IntPart(m) \o FracPart(m)), Len(FracPart(m)),
                     ExpNeg(u), ExpSize(u))

None == [none |-> TRUE]

\* f"{x:.6f}"
Format6(x) ==
    IF x.kind = "nan" THEN "nan"
    ELSE IF x.kind = "inf" THEN (IF x.neg THEN "-" ELSE "") \o "inf"
    ELSE LET w == Zeros(FracDigits + 1 - Len(x.micro)) \o x.micro
         IN  (IF x.neg THEN "-" ELSE "") \o SubSeq(w, 1, Len(w) - FracDigits)
                \o "." \o SubSeq(w, Len(w) - FracDigits + 1, Len(w))

----------------------------------------------------------------------------
(* parse_grrm: the initial (TS) structure                                  *)

\* the first of tok[1], float(tok[1]), tok[2], float(tok[2]), tok[3],
\* float(tok[3]) to raise, in evaluation order; "" when none does
AtomError(tok) ==
    IF Len(tok) < 2 THEN "IndexError"
    ELSE IF ~IsFloat(tok[2]) THEN "ValueError"
    ELSE IF Len(tok) < 3 THEN "IndexError"
    ELSE IF ~IsFloat(tok[3]) THEN "ValueError"
    ELSE IF Len(tok) < 4 THEN "IndexError"
    ELSE IF ~IsFloat(tok[4]) THEN "ValueError"
    ELSE ""

\* (tok[0], float(tok[1]), float(tok[2]), float(tok[3]))
Atom(tok) == <<tok[1], Float(tok[2]), Float(tok[3]), Float(tok[4])>>

\* float(parts[2]) of an energy line: the exception it raises, "" when none
EnergyError(parts) ==
    IF Len(parts) < 3 THEN "IndexError"
    ELSE IF ~IsFloat(parts[3]) THEN "ValueError"
    ELSE ""

\* the 1-based index of the first line containing marker from line k on,
\* Len(ls) + 1 when there is none
RECURSIVE FirstFrom(_, _, _)
FirstFrom(ls, marker, k) ==
    IF k > Len(ls) \/ Contains(ls[k], marker) THEN k
    ELSE FirstFrom(ls, marker, k + 1)

\* for l in lines[i+1:], from the k-th line on, acc the atoms appended so far
RECURSIVE ScanTS(_, _, _)
ScanTS(ls, k, acc) ==
    IF k > Len(ls) THEN [atoms |-> acc, energy |-> None, err |-> ""]
    ELSE LET parts == Split(ls[k])
         IN  IF Len(parts) = 0
             THEN [atoms |-> acc, energy |-> None, err |-> ""]
             ELSE IF parts[1] = "ENERGY"
             THEN IF EnergyError(parts) # ""
                  THEN [atoms |-> acc, energy |-> None,
                        err |-> EnergyError(parts)]
                  ELSE [atoms |-> acc, energy |-> Float(parts[3]), err |-> ""]
             ELSE IF IsElement(parts[1])
             THEN IF AtomError(parts) # ""
                  THEN [atoms |-> acc, energy |-> None,
                        err |-> AtomError(parts)]
                  ELSE ScanTS(ls, k + 1, Append(acc, Atom(parts)))
             ELSE ScanTS(ls, k + 1, acc)

\* ParseTS reading the block of the last "INITIAL STRUCTURE" line instead of
\* the first
ParseTSLast(ls) ==
    LET S == {k \in 1..Len(ls) : Contains(ls[k], "INITIAL STRUCTURE")}
    IN  IF S = {}
        THEN [atoms |-> << >>, energy |-> None, err |-> ""]
        ELSE ScanTS(ls, (CHOOSE m \in S : \A x \in S : x <= m) + 1, << >>)

\* the TS block of the log: ts_atoms, ts_energy, and the exception raised
ParseTS(ls) ==
    LET i == FirstFrom(ls, "INITIAL STRUCTURE", 1)
    IN  IF i > Len(ls)
        THEN [atoms |-> << >>, energy |-> None, err |-> ""]
        ELSE ScanTS(ls, i + 1, << >>)

----------------------------------------------------------------------------
(* write_xyz and the frame lists of main                                   *)

AtomLine(a) ==
    a[1] \o " " \o Format6(a[2]) \o " " \o Format6(a[3]) \o " " \o Format6(a[4])

RECURSIVE AtomLines(_)
AtomLines(as) ==
    IF Len(as) = 0 THEN << >>
    ELSE <<AtomLine(Head(as))>> \o AtomLines(Tail(as))

\* FrameLines with a blank line closing each frame
FrameLinesSeparated(frame) ==
    <<NatStr(Len(frame[2])),
      "Energy=" \o Format6(frame[1]) \o " Label=" \o frame[3]>>
        \o AtomLines(frame[2]) \o <<"">>

\* the lines one frame (energy, atoms, label) adds to the file
FrameLines(frame) ==
    <<NatStr(Len(frame[2])),
      "Energy=" \o Format6(frame[1]) \o " Label=" \o frame[3]>>
        \o AtomLines(frame[2])

\* for energy, atoms, label in frames, from the k-th frame on; out is what
\* has been written.  Formatting None with ".6f" raises TypeError after the
\* frame's atom count line has been written; the with block closes the file.
RECURSIVE WriteFrom(_, _, _)
WriteFrom(frames, k, out) ==
    IF k > Len(frames) THEN [out |-> out, err |-> ""]
    ELSE IF frames[k][1] = None
    THEN [out |-> Append(out, NatStr(Len(frames[k][2]))), err |-> "TypeError"]
    ELSE WriteFrom(frames, k + 1, out \o FrameLines(frames[k]))

write_xyz(frames) == WriteFrom(frames, 1, << >>)

RECURSIVE Reversed(_)
Reversed(s) ==
    IF Len(s) = 0 THEN << >>
    ELSE Append(Reversed(Tail(s)), Head(s))

RECURSIVE Labelled(_, _)
Labelled(ss, label) ==
    IF Len(ss) = 0 THEN << >>
    ELSE <<<<Head(ss)[1], Head(ss)[2], label>>>> \o Labelled(Tail(ss), label)

ForwardFrames(e, as, fs) == <<<<e, as, "TS">>>> \o Labelled(fs, "FWD")

\* BackwardFrames without the reversal
BackwardFramesInOrder(e, as, bs) == <<<<e, as, "TS">>>> \o Labelled(bs, "BWD")

BackwardFrames(e, as, bs) ==
    <<<<e, as, "TS">>>> \o Labelled(Reversed(bs), "BWD")

----------------------------------------------------------------------------
(* The run: main calls parse_grrm (the TS block, then collect twice),      *)
(* builds the two frame lists and writes the two files.                    *)

FWD_START == "IRC FOLLOWING (FORWARD)"
FWD_END   == "EQ EXIST WITHIN STEPSIZE"
BWD_START == "IRC FOLLOWING (BACKWARD)"
BWD_END   == "Energy profile along IRC"

\* the state main starts in, for the log ls
Start(ls) ==
    /\ lines = ls
    /\ pc = "parse_ts"
    /\ ts_atoms = << >>
    /\ ts_energy = None
    /\ start_marker = ""
    /\ end_marker = ""
    /\ j = 0
    /\ steps = << >>
    /\ atoms = << >>
    /\ fwd = << >>
    /\ bwd = << >>
    /\ forward_frames = << >>
    /\ backward_frames = << >>
    /\ fwd_out = << >>
    /\ bwd_out = << >>
    /\ err = ""

\* an uncaught exception ends the process
Raise(e) ==
    /\ pc' = "failed"
    /\ err' = e

\* lines 21-32, then the call collect(FWD_START, FWD_END) of line 53
ParseTSBlock ==
    /\ pc = "parse_ts"
    /\ LET r == ParseTS(lines)
       IN  IF r.err # ""
           THEN /\ Raise(r.err)
                /\ UNCHANGED <<ts_atoms, ts_energy, start_marker, end_marker>>
           ELSE /\ ts_atoms' = r.atoms
                /\ ts_energy' = r.energy
                /\ start_marker' = FWD_START
                /\ end_marker' = FWD_END
                /\ pc' = "seek"
                /\ err' = err
    /\ UNCHANGED <<lines, j, steps, atoms, fwd, bwd, forward_frames,
                   backward_frames, fwd_out, bwd_out>>

\* SeekStart leaving the cursor at the top of the log when no line holds the
\* start marker
SeekStartFromTop ==
    /\ pc = "seek"
    /\ steps' = << >>
    /\ j' = IF FirstFrom(lines, start_marker, 1) > Len(lines) THEN 0
            ELSE FirstFrom(lines, start_marker, 1)
    /\ pc' = "scan"
    /\ UNCHANGED <<lines, ts_atoms, ts_energy, start_marker, end_marker, atoms,
                   fwd, bwd, forward_frames, backward_frames, fwd_out, bwd_out,
                   err>>

\* lines 35-38: steps = [], j = 0, the cursor runs to the first line holding
\* the start marker (or to the end of the log) and one line past it
SeekStart ==
    /\ pc = "seek"
    /\ steps' = << >>
    /\ j' = FirstFrom(lines, start_marker, 1)
    /\ pc' = "scan"
    /\ UNCHANGED <<lines, ts_atoms, ts_energy, start_marker, end_marker, atoms,
                   fwd, bwd, forward_frames, backward_frames, fwd_out, bwd_out,
                   err>>

\* InBlock without the test for the end marker
InBlockToEnd == j < Len(lines)

\* the condition of the outer loop, line 39
InBlock == j < Len(lines) /\ ~Contains(lines[j + 1], end_marker)

\* the condition of line 40
IsStepHeader(line) == StartsWith(LStrip(line), "# STEP")

\* lines 39-40, 50: an iteration of the outer loop on a line that opens no step
SkipLine ==
    /\ pc = "scan"
    /\ InBlock
    /\ ~IsStepHeader(lines[j + 1])
    /\ j' = j + 1
    /\ UNCHANGED <<lines, pc, ts_atoms, ts_energy, start_marker, end_marker,
                   steps, atoms, fwd, bwd, forward_frames, backward_frames,
                   fwd_out, bwd_out, err>>

\* OpenStep without the j += 1 of line 41
OpenStepStay ==
    /\ pc = "scan"
    /\ j < Len(lines) /\ ~Contains(lines[j + 1], end_marker)
    /\ StartsWith(LStrip(lines[j + 1]), "# STEP")
    /\ atoms' = << >>
    /\ pc' = "atoms"
    /\ UNCHANGED <<lines, ts_atoms, ts_energy, start_marker, end_marker, j,
                   steps, fwd, bwd, forward_frames, backward_frames, fwd_out,
                   bwd_out, err>>

\* lines 39-42: an iteration of the outer loop on a "# STEP" line
OpenStep ==
    /\ pc = "scan"
    /\ InBlock
    /\ IsStepHeader(lines[j + 1])
    /\ j' = j + 1
    /\ atoms' = << >>
    /\ pc' = "atoms"
    /\ UNCHANGED <<lines, ts_atoms, ts_energy, start_marker, end_marker, steps,
                   fwd, bwd, forward_frames, backward_frames, fwd_out, bwd_out,
                   err>>

\* the condition of the inner loop, line 43
InStep == j < Len(lines) /\ ~Contains(lines[j + 1], "ENERGY")

\* lines 43-47: an iteration of the inner loop
ReadAtomLine ==
    /\ pc = "atoms"
    /\ InStep
    /\ LET tok == Split(lines[j + 1])
       IN  IF Len(tok) = 0
           THEN Raise("IndexError") /\ UNCHANGED <<j, atoms>>
           ELSE IF IsElement(tok[1]) /\ AtomError(tok) # ""
           THEN Raise(AtomError(tok)) /\ UNCHANGED <<j, atoms>>
           ELSE /\ atoms' = IF IsElement(tok[1])
                            THEN Append(atoms, Atom(tok))
                            ELSE atoms
                /\ j' = j + 1
                /\ UNCHANGED <<pc, err>>
    /\ UNCHANGED <<lines, ts_atoms, ts_energy, start_marker, end_marker, steps,
                   fwd, bwd, forward_frames, backward_frames, fwd_out, bwd_out>>

\* CloseStep skipping a step whose energy cannot be read, instead of raising
CloseStepSkipMalformed ==
    /\ pc = "atoms"
    /\ ~(j < Len(lines) /\ ~Contains(lines[j + 1], "ENERGY"))
    /\ IF j >= Len(lines)
       THEN Raise("IndexError") /\ UNCHANGED <<j, steps>>
       ELSE LET parts == Split(lines[j + 1])
            IN  /\ steps' = IF EnergyError(parts) # "" THEN steps
                            ELSE Append(steps, <<Float(parts[3]), atoms>>)
                /\ j' = j + 1
                /\ pc' = "scan"
                /\ err' = err
    /\ UNCHANGED <<lines, ts_atoms, ts_energy, start_marker, end_marker, atoms,
                   fwd, bwd, forward_frames, backward_frames, fwd_out, bwd_out>>

\* lines 48-50: the inner loop has ended; the energy is read from lines[j],
\* the Step is recorded and the cursor moves on
CloseStep ==
    /\ pc = "atoms"
    /\ ~InStep
    /\ IF j >= Len(lines)
       THEN Raise("IndexError") /\ UNCHANGED <<j, steps>>
       ELSE LET parts == Split(lines[j + 1])
            IN  IF EnergyError(parts) # ""
                THEN Raise(EnergyError(parts)) /\ UNCHANGED <<j, steps>>
                ELSE /\ steps' = Append(steps, <<Float(parts[3]), atoms>>)
                     /\ j' = j + 1
                     /\ pc' = "scan"
                     /\ err' = err
    /\ UNCHANGED <<lines, ts_atoms, ts_energy, start_marker, end_marker, atoms,
                   fwd, bwd, forward_frames, backward_frames, fwd_out, bwd_out>>

\* line 51 for the call of line 53, then the call of line 54
ReturnFwd ==
    /\ pc = "scan"
    /\ ~InBlock
    /\ start_marker = FWD_START
    /\ fwd' = steps
    /\ start_marker' = BWD_START
    /\ end_marker' = BWD_END
    /\ pc' = "seek"
    /\ UNCHANGED <<lines, ts_atoms, ts_energy, j, steps, atoms, bwd,
                   forward_frames, backward_frames, fwd_out, bwd_out, err>>

\* line 51 for the call of line 54, then parse_grrm returns (line 55) and
\* main builds the frame lists (lines 84-88)
ReturnBwd ==
    /\ pc = "scan"
    /\ ~InBlock
    /\ start_marker = BWD_START
    /\ bwd' = steps
    /\ forward_frames' = ForwardFrames(ts_energy, ts_atoms, fwd)
    /\ backward_frames' = BackwardFrames(ts_energy, ts_atoms, steps)
    /\ pc' = "write_fwd"
    /\ UNCHANGED <<lines, ts_atoms, ts_energy, start_marker, end_marker, j,
                   steps, atoms, fwd, fwd_out, bwd_out, err>>

\* line 90
WriteForward ==
    /\ pc = "write_fwd"
    /\ LET r == write_xyz(forward_frames)
       IN  /\ fwd_out' = r.out
           /\ IF r.err # "" THEN Raise(r.err)
              ELSE pc' = "write_bwd" /\ err' = err
    /\ UNCHANGED <<lines, ts_atoms, ts_energy, start_marker, end_marker, j,
                   steps, atoms, fwd, bwd, forward_frames, backward_frames,
                   bwd_out>>

\* line 91
WriteBackward ==
    /\ pc = "write_bwd"
    /\ LET r == write_xyz(backward_frames)
       IN  /\ bwd_out' = r.out
           /\ IF r.err # "" THEN Raise(r.err)
              ELSE pc' = "done" /\ err' = err
    /\ UNCHANGED <<lines, ts_atoms, ts_energy, start_marker, end_marker, j,
                   steps, atoms, fwd, bwd, forward_frames, backward_frames,
                   fwd_out>>

Next ==
    \/ ParseTSBlock
    \/ SeekStart
    \/ SkipLine
    \/ OpenStep
    \/ ReadAtomLine
    \/ CloseStep
    \/ ReturnFwd
    \/ ReturnBwd
    \/ WriteForward
    \/ WriteBackward

----------------------------------------------------------------------------
(* The input logs                                                          *)

MaxTSLines == 5

MaxStepLines == 4

MaxSteps == 2

MaxTail == 2

\* every sequence of at most n members of S
SeqsUpTo(S, n) == UNION {[1..k -> S] : k \in 0..n}

RECURSIVE Flatten(_)
Flatten(ss) == IF Len(ss) = 0 THEN << >> ELSE Head(ss) \o Flatten(Tail(ss))

\* every log of at most MaxTSLines lines that are a TS header, an atom
\* line, a TS energy line, a blank line or a line of other text
TSLines ==
    {"INITIAL STRUCTURE", "H 0.0 0.0 0.0", "He 0.0 0.0 0.74", "ENERGY = -1.0",
     "", "Total ENERGY -2.0"}

TSLogs == SeqsUpTo(TSLines, MaxTSLines)

\* every log of at most MaxStepLines lines that are a start or end sentinel,
\* a step header, an atom line, an energy line with or without its value,
\* or a blank line
StepLines(start, end) ==
    {start, end, "# STEP 1", "H 0.0 0.0 0.0", "ENERGY = -1.0", "ENERGY =", ""}

StepLogs ==
    SeqsUpTo(StepLines(FWD_START, FWD_END), MaxStepLines)
        \cup SeqsUpTo(StepLines(BWD_START, BWD_END), MaxStepLines)

\* whole logs: a TS block (or none), then a forward and a backward section
\* (or none) of at most MaxSteps steps each, with or without its end sentinel.
\* The separators are spaces, tabs and the unit separator 1F: TLC's state
\* queue does not keep a character beyond ASCII, such as the no-break space
TSBlocks ==
    {<<"INITIAL STRUCTURE", "H 0.0 0.0 0.0", "H 0.0 0.0 0.74",
       "ENERGY = -1.000000">>,
     <<"INITIAL STRUCTURE", "O 0.0 0.0 0.0", "ENERGY\t=  -7.55e1">>,
     <<"INITIAL STRUCTURE", "H 0.0 0.0", "ENERGY = -1.0">>,
     <<"INITIAL STRUCTURE", "H 0.0 0.0 0.0", "ENERGY = n/a">>,
     << >>}

StepBlocks ==
    {<<"# STEP 1", "H 0.01 0.0 0.0", "H 0.01 0.0 0.74", "ENERGY = -1.000100">>,
     <<"\t # STEP 2", "O0.0 0.0 1.0E-01", "ENERGY = -756.0e-1">>}

Sections(start, end) ==
    {<< >>} \cup
    {<<start>> \o Flatten(bs) \o tail :
        bs \in SeqsUpTo(StepBlocks, MaxSteps), tail \in {<<end>>, << >>}}

WholeLogs ==
    {t \o f \o b : t \in TSBlocks, f \in Sections(FWD_START, FWD_END),
                   b \in Sections(BWD_START, BWD_END)}

\* logs with a step whose ENERGY line comes after the end sentinel line, and
\* at most MaxTail lines after that ENERGY line
StraddleLogsOf(start, end) ==
    {<<start, "# STEP 1">> \o body \o <<end, "ENERGY = -1.0">> \o tail :
        body \in {<< >>, <<"H 0.0 0.0 0.0">>},
        tail \in SeqsUpTo(StepLines(start, end), MaxTail)}

StraddleLogs ==
    StraddleLogsOf(FWD_START, FWD_END) \cup StraddleLogsOf(BWD_START, BWD_END)

Logs == TSLogs \cup StepLogs \cup WholeLogs \cup StraddleLogs

Init == \E ls \in Logs : Start(ls)

Spec == Init /\ [][Next]_vars

----------------------------------------------------------------------------
(* What the log says, read off the lines without a cursor                  *)

Min(S) == CHOOSE m \in S : \A x \in S : m <= x

\* the first member of S, Len(ls) + 1 when S is empty
FirstOf(ls, S) == IF S = {} THEN Len(ls) + 1 ELSE Min(S)

LinesWith(ls, marker) == {k \in 1..Len(ls) : Contains(ls[k], marker)}

Headers(ls) == {k \in 1..Len(ls) : IsStepHeader(ls[k])}

\* an element symbol and three coordinates
IsAtomLine(line) ==
    LET t == Split(line)
    IN  /\ Len(t) >= 4
        /\ IsElement(t[1])
        /\ IsFloat(t[2]) /\ IsFloat(t[3]) /\ IsFloat(t[4])

\* neither blank, nor an energy line of the TS block, nor an atom line
IsOtherLine(line) ==
    LET t == Split(line)
    IN  Len(t) > 0 /\ t[1] # "ENERGY" /\ ~IsElement(t[1])

\* first token ENERGY, at least three tokens, the third a number
IsTSEnergyLine(line) ==
    LET t == Split(line)
    IN  Len(t) >= 3 /\ t[1] = "ENERGY" /\ IsFloat(t[3])

RECURSIVE AtomsOf(_)
AtomsOf(ls) ==
    IF Len(ls) = 0 THEN << >>
    ELSE (IF IsAtomLine(Head(ls)) THEN <<Atom(Split(Head(ls)))>> ELSE << >>)
            \o AtomsOf(Tail(ls))

TSHeader(ls) == FirstOf(ls, LinesWith(ls, "INITIAL STRUCTURE"))

\* the lines after the first TS header up to the first energy line
TSEnergyLines(ls) ==
    {e \in (TSHeader(ls) + 1)..Len(ls) :
        /\ IsTSEnergyLine(ls[e])
        /\ \A k \in (TSHeader(ls) + 1)..(e - 1) :
              IsAtomLine(ls[k]) \/ IsOtherLine(ls[k])}

WellFormedTS(ls) == TSEnergyLines(ls) # {}

\* C1: when the first "INITIAL STRUCTURE" line is followed, with no blank
\* line in between, by K atom lines and then a line "ENERGY <t2> <number>",
\* the TS scan raises nothing, the TS geometry is exactly those K atoms in
\* log order and the TS energy is the third token of that line, whatever
\* follows it (a later "INITIAL STRUCTURE" block included).
C1_FirstTSBlock ==
    (WellFormedTS(lines) /\ pc # "parse_ts") =>
        LET e == Min(TSEnergyLines(lines))
        IN  /\ start_marker # ""
            /\ ts_atoms = AtomsOf(SubSeq(lines, TSHeader(lines) + 1, e - 1))
            /\ ts_energy = Float(Split(lines[e])[3])

C1_Witness ==
    /\ WellFormedTS(lines)
    /\ pc = "done"
    /\ Len(ts_atoms) = 2
    /\ ts_atoms[1] # ts_atoms[2]
    /\ Cardinality(LinesWith(lines, "INITIAL STRUCTURE")) > 1

\* the Steps of a section, from line k on: the first step header before the
\* first end sentinel opens a step, which runs to the first line containing
\* ENERGY; the next step is looked for after that line
RECURSIVE StepsFrom(_, _, _)
StepsFrom(ls, end, k) ==
    LET stop == FirstOf(ls, {x \in LinesWith(ls, end) : x >= k})
        h    == FirstOf(ls, {x \in Headers(ls) : x >= k})
        e    == FirstOf(ls, {x \in LinesWith(ls, "ENERGY") : x > h})
    IN  IF h >= stop THEN << >>
        ELSE <<<<Float(Split(ls[e])[3]), AtomsOf(SubSeq(ls, h + 1, e - 1))>>>>
                \o StepsFrom(ls, end, e + 1)

\* the Steps of the section that follows the first start sentinel
SectionSteps(ls, start, end) ==
    StepsFrom(ls, end, FirstOf(ls, LinesWith(ls, start)) + 1)

\* C2: in a run that completes, the forward trajectory is the TS frame and
\* then the forward steps of the log, in log order, labelled FWD; the
\* backward trajectory is the same TS frame and then the backward steps of
\* the log, last one first, labelled BWD.
C2_FrameOrder ==
    pc = "done" =>
        LET f == SectionSteps(lines, FWD_START, FWD_END)
            b == SectionSteps(lines, BWD_START, BWD_END)
        IN  /\ Len(forward_frames) = 1 + Len(f)
            /\ Len(backward_frames) = 1 + Len(b)
            /\ forward_frames[1] = <<ts_energy, ts_atoms, "TS">>
            /\ backward_frames[1] = forward_frames[1]
            /\ \A k \in 1..Len(f) :
                  forward_frames[k + 1] = <<f[k][1], f[k][2], "FWD">>
            /\ \A k \in 1..Len(b) :
                  backward_frames[k + 1] =
                      <<b[Len(b) + 1 - k][1], b[Len(b) + 1 - k][2], "BWD">>

C2_Witness ==
    /\ pc = "done"
    /\ Len(forward_frames) = 3
    /\ forward_frames[2] # forward_frames[3]
    /\ Len(backward_frames) = 3
    /\ backward_frames[2][1] # backward_frames[3][1]

\* C3 as claimed: without any "INITIAL STRUCTURE" line the TS geometry is
\* empty, the TS energy is None, and writing the trajectories raises
\* nothing: the run ends with both files written, each led by the TS frame.
C3_NoTSBlockCompletes ==
    LinesWith(lines, "INITIAL STRUCTURE") = {} =>
        /\ ts_atoms = << >>
        /\ ts_energy = None
        /\ err # "TypeError"
        /\ pc = "done" =>
              /\ forward_frames[1] = <<None, << >>, "TS">>
              /\ backward_frames[1] = <<None, << >>, "TS">>

\* C4: a block whose start sentinel is in no line of the log yields no Step
\* and no exception, whatever else the log holds, and its trajectory is the
\* TS frame alone.
C4_NoStartNoSteps ==
    /\ (LinesWith(lines, FWD_START) = {} /\ start_marker = FWD_START) =>
          pc \in {"seek", "scan"} /\ steps = << >>
    /\ (LinesWith(lines, FWD_START) = {} /\ start_marker = BWD_START) =>
          /\ fwd = << >>
          /\ Len(forward_frames) > 0 =>
                forward_frames = <<<<ts_energy, ts_atoms, "TS">>>>
    /\ (LinesWith(lines, BWD_START) = {} /\ start_marker = BWD_START) =>
          /\ err \notin {"IndexError", "ValueError"}
          /\ pc # "seek" => steps = << >>
          /\ bwd = << >>
          /\ Len(backward_frames) > 0 =>
                backward_frames = <<<<ts_energy, ts_atoms, "TS">>>>

C4_Witness ==
    /\ LinesWith(lines, FWD_START) = {}
    /\ Headers(lines) # {}
    /\ LinesWith(lines, FWD_END) # {}
    /\ LinesWith(lines, "ENERGY") # {}
    /\ Len(forward_frames) = 1

----------------------------------------------------------------------------
(* write_xyz on its own: every sequence of at most MaxFrames frames of at  *)
(* most MaxAtoms atoms each, an energy of None included                    *)

MaxFrames == 2

MaxAtoms == 2

FrameAtoms ==
    {<<"H", Float("0.0"), Float("0.0"), Float("0.74")>>,
     <<"He", Float("-1.5"), Float("2.25e0"), Float("1e-6")>>}

FrameEnergies == {None, Float("-1.000100")}

FrameLabels == {"TS", "FWD"}

Frames ==
    {<<e, as, l>> : e \in FrameEnergies, as \in SeqsUpTo(FrameAtoms, MaxAtoms),
                    l \in FrameLabels}

InitWrite ==
    \E fs \in SeqsUpTo(Frames, MaxFrames) :
        /\ lines = << >>
        /\ pc = "write_fwd"
        /\ ts_atoms = << >>
        /\ ts_energy = None
        /\ start_marker = ""
        /\ end_marker = ""
        /\ j = 0
        /\ steps = << >>
        /\ atoms = << >>
        /\ fwd = << >>
        /\ bwd = << >>
        /\ forward_frames = fs
        /\ backward_frames = Reversed(fs)
        /\ fwd_out = << >>
        /\ bwd_out = << >>
        /\ err = ""

NextWrite == WriteForward \/ WriteBackward

SpecWrite == InitWrite /\ [][NextWrite]_vars

\* the number of lines of the frames before the k-th, at n lines a frame
\* besides its atoms
RECURSIVE Offset(_, _, _)
Offset(frames, k, n) ==
    IF k = 1 THEN 0
    ELSE Offset(frames, k - 1, n) + n + Len(frames[k - 1][2])

\* the frames before the first one whose energy is None
Whole(frames) ==
    FirstOf(frames, {k \in 1..Len(frames) : frames[k][1] = None}) - 1

\* out holds the frames written in full, each as its atom count, its comment
\* line and one line per atom, and then only the atom count of the frame
\* whose energy is None, if there is one
Layout(frames, out) ==
    LET n == Whole(frames)
    IN  /\ Len(out) = Offset(frames, n + 1, 2) + (IF n < Len(frames) THEN 1 ELSE 0)
        /\ \A k \in 1..n :
              LET o == Offset(frames, k, 2)
                  f == frames[k]
              IN  /\ out[o + 1] = NatStr(Len(f[2]))
                  /\ out[o + 2] = "Energy=" \o Format6(f[1]) \o " Label=" \o f[3]
                  /\ \A a \in 1..Len(f[2]) :
                        Split(out[o + 2 + a]) =
                            <<f[2][a][1], Format6(f[2][a][2]),
                              Format6(f[2][a][3]), Format6(f[2][a][4])>>
        /\ n < Len(frames) => out[Len(out)] = NatStr(Len(frames[n + 1][2]))

\* C5 as claimed: a file written to the end holds three-plus-N lines for
\* each frame of N atoms.
C5_ThreePlusN ==
    pc = "done" => Len(fwd_out) = Offset(forward_frames, Len(forward_frames) + 1, 3)

\* C5, amended: each frame written occupies exactly two-plus-N lines (its
\* atom count, its comment line with energy and label, one line per atom);
\* an empty frame sequence produces an empty file; a frame whose energy is
\* None gets its atom count line only and ends the write with TypeError.
C5_TwoPlusN ==
    /\ pc # "write_fwd" => Layout(forward_frames, fwd_out)
    /\ (pc = "done" \/ bwd_out # << >>) => Layout(backward_frames, bwd_out)
    /\ pc = "done" => Whole(backward_frames) = Len(backward_frames)
    /\ pc = "write_bwd" => Whole(forward_frames) = Len(forward_frames)
    /\ pc = "failed" /\ bwd_out = << >> =>
          err = "TypeError" /\ Whole(forward_frames) < Len(forward_frames)

C5_Witness ==
    /\ pc = "done"
    /\ Len(forward_frames) = 2
    /\ Len(forward_frames[1][2]) = 2
    /\ Len(forward_frames[2][2]) = 0
    /\ Len(fwd_out) = 6

----------------------------------------------------------------------------
(* The step block scan                                                     *)

\* C6: a step whose ENERGY line has fewer than 3 tokens ends the run with
\* an exception: no Step is recorded for it, nothing is returned, and
\* nothing runs after the failure.
C6_MalformedEnergyFatal ==
    [][/\ (/\ pc = "atoms"
           /\ j < Len(lines)
           /\ Contains(lines[j + 1], "ENERGY")
           /\ Len(Split(lines[j + 1])) < 3)
          => (/\ pc' = "failed"
              /\ err' = "IndexError"
              /\ steps' = steps /\ fwd' = fwd /\ bwd' = bwd)
       /\ pc # "failed"]_vars

C6_Witness ==
    /\ pc = "failed"
    /\ err = "IndexError"
    /\ start_marker = FWD_START
    /\ j < Len(lines)
    /\ Contains(lines[j + 1], "ENERGY")
    /\ Len(Split(lines[j + 1])) < 3
    /\ \E h \in Headers(lines) : h > j + 1
    /\ fwd = << >>

\* C7 as claimed: in a run that completes, every forward and backward Step
\* has as many atoms as the TS geometry.
C7_SameAtomCount ==
    pc = "done" =>
        /\ \A k \in 1..Len(fwd) : Len(fwd[k][2]) = Len(ts_atoms)
        /\ \A k \in 1..Len(bwd) : Len(bwd[k][2]) = Len(ts_atoms)

\* the line of the first start sentinel, and of the first end sentinel
\* after it (1-based; Len(lines) + 1 when there is none)
StartLine == FirstOf(lines, LinesWith(lines, start_marker))

EndLine == FirstOf(lines, {x \in LinesWith(lines, end_marker) : x > StartLine})

\* every step header of the section has a line containing ENERGY after it
\* and before the end sentinel
NoStraddle ==
    \A h \in Headers(lines) :
        (StartLine < h /\ h < EndLine) =>
            \E e \in LinesWith(lines, "ENERGY") : h < e /\ e < EndLine

\* C8 as claimed: the scan reads step bodies (atoms and energy) only from
\* lines strictly after the start sentinel line and strictly before the
\* first end sentinel line after it.
C8_BodyBeforeEnd ==
    (pc = "atoms" /\ j < Len(lines)) => (StartLine < j + 1 /\ j + 1 < EndLine)

\* C8, amended: the scan reads only lines strictly after the first start
\* sentinel line, and the outer loop neither opens a step at a line containing
\* the end sentinel nor moves past one: there collect returns the Steps it
\* has.  The inner loop tests for ENERGY only, so a step whose ENERGY line
\* is not before the end sentinel line is read through that line, and the
\* outer loop resumes after the step's ENERGY line.  When every step header
\* of the section has its ENERGY line before the first end sentinel line
\* after the start, no step is opened at or after that line and every atom
\* and energy read comes from a line strictly before it.
C8_ConfinedUnlessStraddling ==
    /\ [](pc \in {"scan", "atoms"} =>
            /\ StartLine < j + 1
            /\ NoStraddle =>
                  /\ (pc = "atoms" /\ j < Len(lines)) => j + 1 < EndLine
                  /\ (pc = "scan" /\ j < Len(lines)) => j + 1 <= EndLine)
    /\ [][(pc = "scan" /\ j < Len(lines) /\ Contains(lines[j + 1], end_marker))
            => (j' = j /\ steps' = steps /\ pc' \notin {"scan", "atoms"})]_vars

\* a step has been read through the end sentinel line and closed on an
\* ENERGY line after it, and the outer loop has opened a later step and read
\* an atom of it
C8_Witness ==
    /\ pc = "atoms"
    /\ start_marker = FWD_START
    /\ EndLine <= Len(lines)
    /\ Len(steps) > 0
    /\ Len(atoms) > 0
    /\ \E e \in LinesWith(lines, "ENERGY"), h \in Headers(lines) :
            EndLine < e /\ e < h /\ h <= j

\* the confined case: every step of the section closes before the end
\* sentinel line, a step is open, and a step header follows that line
C8_Confined ==
    /\ pc = "atoms"
    /\ start_marker = FWD_START
    /\ NoStraddle
    /\ EndLine <= Len(lines)
    /\ \E h \in Headers(lines) : h > EndLine
    /\ Len(atoms) > 0
    /\ Len(steps) > 0

\* C9 as claimed: inside a step, a line before the ENERGY line whose first
\* token is no element symbol, a blank line included, adds no atom, does
\* not end the step and raises nothing.
C9_NonAtomLinesSkipped ==
    [][(/\ pc = "atoms"
        /\ InStep
        /\ LET t == Split(lines[j + 1])
           IN  Len(t) = 0 \/ ~IsElement(t[1]))
       => (pc' = "atoms" /\ atoms' = atoms /\ j' = j + 1 /\ err' = "")]_vars

\* C10: every iteration of the outer and of the inner loop that does not
\* end the run moves the cursor one line on, and the cursor never passes
\* the line after the end of the log, so a scan ends within one pass over
\* the lines, by returning or by an exception (a "# STEP" with no ENERGY
\* line before the end of the log ends in IndexError); nothing runs after
\* the run has ended; no more Steps are recorded than the log has "# STEP"
\* lines.
C10_ScanTerminates ==
    [][/\ (pc \in {"scan", "atoms"} /\ pc' \in {"scan", "atoms"})
             => j' = j + 1
       /\ pc' \in {"scan", "atoms"} => j' <= Len(lines) + 1
       /\ (pc = "atoms" /\ j >= Len(lines))
             => (pc' = "failed" /\ err' = "IndexError")
       /\ pc \notin {"done", "failed"}
       /\ Len(steps') <= Cardinality(Headers(lines))
       /\ Len(fwd') <= Cardinality(Headers(lines))
       /\ Len(bwd') <= Cardinality(Headers(lines))]_vars

C10_Witness ==
    /\ pc = "failed"
    /\ err = "IndexError"
    /\ start_marker = FWD_START
    /\ j = Len(lines)
    /\ Len(steps) = 1
    /\ Cardinality(Headers(lines)) = 2

====
